---- MODULE Spec2Model ----
(***************************************************************************)
(* Physical projection execution of polars-lazy:                           *)
(*   projection_utils.rs  evaluate_physical_expressions and its two        *)
(*                        runners (run_exprs_par and                       *)
(*                        execute_projection_cached_window_fns), and the   *)
(*                        output assembler check_expand_literals.          *)
(* An expression is abstracted to what this code inspects: the window      *)
(* nodes met by the depth-first scan of its tree (each with its            *)
(* partition-by list), whether its evaluation fails, and its output name.  *)
(***************************************************************************)
EXTENDS Integers, Sequences, FiniteSets, TLC

\* ------------------------------------------------------------- bounds
\* longest `exprs` given to evaluate_physical_expressions
MaxExprs == 2
\* longest `cse_exprs` given to evaluate_physical_expressions
MaxCse == 2
\* longest `exprs` given to execute_projection_cached_window_fns alone
MaxWinExprs == 3
\* check_expand_literals: most columns given, longest column given
MaxCols == 4
MaxColLen == 3
\* profile_name: most leaf columns an expression refers to
MaxLeaves == 2
\* selectors: most operands (add and subtract lists together) of a selector
MaxOperands == 3
\* undo_aliases: deepest tree given
MaxDepth == 2

\* ------------------------------------------------------------- inputs
\* partition-by key lists: the same two keys in both orders
PBLists == { <<"a", "b">>, <<"b", "a">> }

\* the window nodes of an expression, in depth-first order
WinShapes ==
    { <<>> } \cup { <<p>> : p \in PBLists }
             \cup { <<p, q>> : p \in PBLists, q \in PBLists }

\* prefix of the temporary names of CSE columns
CSE_REPLACED == "__POLARS_CSER_"

FinalName == << "x" >>
TmpName == << CSE_REPLACED, "x" >>

\* expressions given to the window-aware evaluator alone
WinPool == [wins : WinShapes, fail : BOOLEAN, name : {FinalName}]

\* expressions given to evaluate_physical_expressions as `exprs`: the name of
\* a failing expression is never read, and the temporary name is given to
\* plain expressions (a bare reference to a CSE column)
ExprPool ==
    { e \in [wins : { <<>> } \cup { <<p>> : p \in PBLists },
             fail : BOOLEAN, name : {FinalName, TmpName}] :
        (e.name = TmpName) => (~e.fail /\ e.wins = <<>>) }

\* expressions given as `cse_exprs`: their columns carry temporary names
CsePool ==
    { e \in [wins : { <<>>, << <<"a", "b">> >> }, fail : BOOLEAN, name : {TmpName}] :
        e.fail => e.wins = <<>> }

SeqsUpTo(S, n) == UNION { [1..k -> S] : k \in 0..n }

\* the columns of the table at entry
Df0 == << [name |-> <<"a">>], [name |-> <<"b">>] >>

\* the window cache of the caller's state at entry: empty, or holding an entry
CacheAtEntry == { {}, {"stale"} }

\* check_expand_literals: the names of the columns given; element k of a
\* column named n is written << n, k >>
CelNames == { "a", "b", "c" }

Series(n, len) == [name |-> n, vals |-> [k \in 1..len |-> << n, k >>]]

ColPool == { Series(n, len) : n \in CelNames, len \in 0..MaxColLen }

VARIABLES
    pc,                 \* position in evaluate_physical_expressions
    df,                 \* the table (its columns)
    cse_exprs, exprs,   \* the arguments
    has_windows,
    runner,             \* the selected evaluator
    cache,              \* window-result cache of the caller's state
    width,              \* `let width = df.width()`
    result,             \* value returned by evaluate_physical_expressions
    rpc,                \* position in the running evaluator
    windows, other,     \* the partition built by the window-aware evaluator
    pstat,              \* state of each item of the parallel map
    selected_columns,   \* tagged results
    gi, gj,             \* current windowed group, next item in it
    gstate,             \* derived (split) state of the current group
    nsplit,             \* number of split() calls so far
    wrun,               \* a windowed evaluation is in progress
    ret,                \* value returned by the evaluator
    evlog,              \* evaluations started, in order
    cel_in, zero_length, cel_out,  \* check_expand_literals: arguments, result
    pn_in, pn_out,      \* profile_name: arguments, result
    ua_in, ua_out,      \* undo_aliases: the tree given, the tree returned
    reg,                \* the expressions built by the selector operations
    sel_last            \* the last selector operation and its outcome

execVars == << pc, df, cse_exprs, exprs, has_windows, runner, cache, width,
               result, rpc, windows, other, pstat, selected_columns, gi, gj,
               gstate, nsplit, wrun, ret, evlog >>
celVars == << cel_in, zero_length, cel_out >>
metaVars == << pn_in, pn_out, ua_in, ua_out, reg, sel_last >>
vars == << execVars, celVars, metaVars >>

\* ------------------------------------------------------------- helpers
NoRet == [ok |-> FALSE, cols |-> <<>>, set |-> FALSE]
Ok(cols) == [ok |-> TRUE, cols |-> cols, set |-> TRUE]
Err == [ok |-> FALSE, cols |-> <<>>, set |-> TRUE]

NoState == [id |-> 0, hwf |-> FALSE, cwf |-> FALSE, cache |-> {}]

Min(S) == CHOOSE x \in S : \A y \in S : x <= y

\* the expressions the running evaluator was given
RunExprs == IF pc = "cse" THEN cse_exprs ELSE exprs

\* `e.into_iter()` filtered on Expr::Window: the window nodes of the tree
WindowNodes(e) == e.wins

\* the Debug rendering of one partition-by expression: one token per key
DebugExpr(k) == << "col(", k, ")" >>

\* format!("{:?}", partition_by.as_slice()): "[k1, k2, ...]"
RECURSIVE JoinKeys(_)
JoinKeys(pb) ==
    IF pb = <<>> THEN <<>>
    ELSE IF Len(pb) = 1 THEN DebugExpr(pb[1])
    ELSE DebugExpr(pb[1]) \o << ", " >> \o JoinKeys(Tail(pb))

FormatSlice(pb) == << "[" >> \o JoinKeys(pb) \o << "]" >>

\* mutant: the key is taken from the last window node (no `break`)
GroupKeyLast(e) == FormatSlice(WindowNodes(e)[Len(WindowNodes(e))])

\* the key of the first window node met by the scan (then `break`)
GroupKey(e) == FormatSlice(WindowNodes(e)[1])

\* PhysicalExpr::evaluate: the column of expression `pos` of stage `st`,
\* evaluated against table `tbl`
Evaluate(e, st, pos, tbl) ==
    [ok |-> ~e.fail,
     s  |-> [name |-> e.name, src |-> << st, pos >>, w |-> Len(tbl)]]

\* lines 40-61: the partition into windowed groups and the plain group
RECURSIVE PartitionFrom(_, _, _, _, _)
PartitionFrom(es, k, index, ws, oth) ==
    IF k > Len(es) THEN [windows |-> ws, other |-> oth]
    ELSE
      LET idx == index + 1   \* u32: no wrap below 2^32 expressions
          item == [idx |-> idx, pos |-> k]
      IN IF WindowNodes(es[k]) # <<>>
         THEN LET groupby == GroupKey(es[k])
                  hit == { g \in 1..Len(ws) : ws[g].key = groupby }
              IN IF hit # {}
                 THEN PartitionFrom(es, k + 1, idx,
                        [ws EXCEPT ![Min(hit)].items = Append(@, item)], oth)
                 ELSE PartitionFrom(es, k + 1, idx,
                        Append(ws, [key |-> groupby, items |-> << item >>]), oth)
         ELSE PartitionFrom(es, k + 1, idx, ws, Append(oth, item))

\* mutant: `if !is_window` is lost, every expression is also a plain one
PartitionAllPlain(es) ==
    [windows |-> PartitionFrom(es, 1, 0, <<>>, <<>>).windows,
     other |-> [k \in 1..Len(es) |-> [idx |-> k, pos |-> k]]]

Partition(es) == PartitionFrom(es, 1, 0, <<>>, <<>>)

\* insertion of one tagged result into a sequence sorted by tag
RECURSIVE InsertByKey(_, _)
InsertByKey(t, sorted) ==
    IF sorted = <<>> THEN << t >>
    ELSE IF t.idx < Head(sorted).idx THEN << t >> \o sorted
    ELSE << Head(sorted) >> \o InsertByKey(t, Tail(sorted))

RECURSIVE SortFrom(_, _)
SortFrom(cols, acc) ==
    IF cols = <<>> THEN acc
    ELSE SortFrom(Tail(cols), InsertByKey(Head(cols), acc))

\* mutant: the results are returned in the order they were pushed
KeepPushOrder(cols) == cols

\* selected_columns.sort_unstable_by_key(|tpl| tpl.0)
SortByKey(cols) == SortFrom(cols, <<>>)

\* .into_iter().map(|tpl| tpl.1).collect()
DropTags(cols) == [k \in 1..Len(cols) |-> cols[k].s]

\* the expression a parallel item stands for
ParPos(k) == IF runner = "window" THEN other[k].pos ELSE k
ParIdx(k) == IF runner = "window" THEN other[k].idx ELSE k

\* ExecutionState::split: a new state with its own, empty window cache
SplitState(id) == [id |-> id, hwf |-> FALSE, cwf |-> FALSE, cache |-> {}]

\* ExecutionState::clear_window_expr_cache
ClearWindowExprCache(c) == {}

\* a window expression evaluated with the cache flag set stores the groups
\* of its partition-by keys in the cache of the state it is given
CacheAfterEval(st, e) ==
    IF st.cwf /\ WindowNodes(e) # <<>>
    THEN st.cache \cup { FormatSlice(WindowNodes(e)[1]) }
    ELSE st.cache

\* ------------------------------------------------------------- states
ExecIdle ==
    /\ pc = "idle" /\ df = <<>> /\ cse_exprs = <<>> /\ exprs = <<>>
    /\ has_windows = FALSE /\ runner = "none" /\ cache = {} /\ width = 0
    /\ result = NoRet /\ rpc = "idle" /\ windows = <<>> /\ other = <<>>
    /\ pstat = <<>> /\ selected_columns = <<>> /\ gi = 0 /\ gj = 0
    /\ gstate = NoState /\ nsplit = 0 /\ wrun = FALSE /\ ret = NoRet
    /\ evlog = <<>>

CelIdle == cel_in = <<>> /\ zero_length = FALSE /\ cel_out = [kind |-> "idle"]

PnIdle == pn_in = <<>> /\ pn_out = [kind |-> "idle"]
UndoIdle == ua_in = <<>> /\ ua_out = <<>>
SelIdle == reg = <<>> /\ sel_last = [op |-> "idle"]
MetaIdle == PnIdle /\ UndoIdle /\ SelIdle

RunnerAtRest ==
    /\ windows = <<>> /\ other = <<>> /\ pstat = <<>>
    /\ selected_columns = <<>> /\ gi = 0 /\ gj = 0 /\ gstate = NoState
    /\ nsplit = 0 /\ wrun = FALSE /\ ret = NoRet /\ evlog = <<>>

HasWindowNode(es) == \E k \in 1..Len(es) : WindowNodes(es[k]) # <<>>

\* a call of evaluate_physical_expressions; has_windows is the caller's
\* record that some expression holds a window node: without it none does
Init ==
    /\ pc = "entry"
    /\ df = Df0
    /\ cse_exprs \in SeqsUpTo(CsePool, MaxCse)
    /\ exprs \in SeqsUpTo(ExprPool, MaxExprs)
    /\ has_windows \in BOOLEAN
    /\ (HasWindowNode(cse_exprs) \/ HasWindowNode(exprs)) => has_windows
    /\ runner = "none"
    /\ cache \in CacheAtEntry
    /\ width = 0
    /\ result = NoRet
    /\ rpc = "idle"
    /\ RunnerAtRest
    /\ CelIdle
    /\ MetaIdle

\* a call of execute_projection_cached_window_fns
InitWin ==
    /\ pc = "fn"
    /\ df = Df0
    /\ cse_exprs = <<>>
    /\ exprs \in SeqsUpTo(WinPool, MaxWinExprs)
    /\ has_windows = TRUE
    /\ runner = "window"
    /\ cache \in CacheAtEntry
    /\ width = 0
    /\ result = NoRet
    /\ rpc = "start"
    /\ RunnerAtRest
    /\ CelIdle
    /\ MetaIdle

\* ------------------------------------------------------------- actions
runVars == << windows, other, pstat, selected_columns, gi, gj, gstate,
              nsplit, wrun, ret, evlog >>
argVars == << cse_exprs, exprs, has_windows >>

\* lines 129-136, 161: select the evaluator and call it on the first list
Enter ==
    /\ pc = "entry"
    /\ runner' = IF has_windows THEN "window" ELSE "par"
    /\ pc' = IF cse_exprs # <<>> THEN "cse" ELSE "main"
    /\ rpc' = "start"
    /\ UNCHANGED << df, argVars, cache, width, result, runVars, celVars, metaVars >>

\* execute_projection_cached_window_fns, lines 35-61: build the partition
WinPartition ==
    /\ rpc = "start" /\ runner = "window"
    /\ LET p == Partition(RunExprs)
       IN /\ windows' = p.windows
          /\ other' = p.other
          /\ pstat' = [k \in 1..Len(p.other) |-> "todo"]
    /\ selected_columns' = <<>>
    /\ gi' = 0 /\ gj' = 0 /\ gstate' = NoState /\ wrun' = FALSE
    /\ ret' = NoRet
    /\ rpc' = "par"
    /\ UNCHANGED << pc, df, argVars, runner, cache, width, result, nsplit,
                    evlog, celVars, metaVars >>

\* run_exprs_par, lines 114-116: the parallel map over all expressions
ParInstall ==
    /\ rpc = "start" /\ runner = "par"
    /\ pstat' = [k \in 1..Len(RunExprs) |-> "todo"]
    /\ windows' = <<>> /\ other' = <<>> /\ selected_columns' = <<>>
    /\ gi' = 0 /\ gj' = 0 /\ gstate' = NoState /\ wrun' = FALSE
    /\ ret' = NoRet
    /\ rpc' = "par"
    /\ UNCHANGED << pc, df, argVars, runner, cache, width, result, nsplit,
                    evlog, celVars, metaVars >>

\* a worker of the pool takes item k: expr.evaluate(df, state) begins
ParStart(k) ==
    /\ rpc = "par" /\ pstat[k] = "todo"
    /\ pstat' = [pstat EXCEPT ![k] = "run"]
    /\ evlog' = Append(evlog,
          [st |-> pc, pos |-> ParPos(k), kind |-> "plain", sid |-> 0,
           hwf |-> FALSE, cwf |-> FALSE, grp |-> 0, gsize |-> 0,
           w |-> Len(df), fail |-> RunExprs[ParPos(k)].fail])
    /\ UNCHANGED << pc, df, argVars, runner, cache, width, result, rpc,
                    windows, other, selected_columns, gi, gj, gstate, nsplit,
                    wrun, ret, celVars, metaVars >>

\* the evaluation of item k ends, with a column or an error
ParEnd(k) ==
    /\ rpc = "par" /\ pstat[k] = "run"
    /\ pstat' = [pstat EXCEPT ![k] =
          IF Evaluate(RunExprs[ParPos(k)], pc, ParPos(k), df).ok
          THEN "ok" ELSE "err"]
    /\ UNCHANGED << pc, df, argVars, runner, cache, width, result, rpc,
                    windows, other, selected_columns, gi, gj, gstate, nsplit,
                    wrun, ret, evlog, celVars, metaVars >>

\* mutant: the caller goes on without waiting for the workers
ParJoinNoWait == TRUE

\* POOL.install returns: no worker is in an item, and every item was taken
\* unless an error stopped the map
ParJoinReady ==
    /\ \A k \in 1..Len(pstat) : pstat[k] # "run"
    /\ \/ \A k \in 1..Len(pstat) : pstat[k] # "todo"
       \/ \E k \in 1..Len(pstat) : pstat[k] = "err"

\* mutant: an error of an item is dropped
ParFailedNever(st) == FALSE

\* collect::<PolarsResult<Vec<_>>>(): an error if some item failed
ParFailed(st) == \E k \in 1..Len(st) : st[k] = "err"

\* mutant: the columns are collected last item first
ParCollectReversed(st) ==
    [k \in 1..Len(st) |->
        [idx |-> ParIdx(Len(st) + 1 - k),
         s |-> Evaluate(RunExprs[ParPos(Len(st) + 1 - k)], pc,
                        ParPos(Len(st) + 1 - k), df).s]]

\* the collected vector: the column of item k at position k
ParCollect(st) ==
    [k \in 1..Len(st) |->
        [idx |-> ParIdx(k),
         s |-> Evaluate(RunExprs[ParPos(k)], pc, ParPos(k), df).s]]

\* lines 63-68 and 114-119: the parallel map returns
ParJoin ==
    /\ rpc = "par"
    /\ ParJoinReady
    /\ IF ParFailed(pstat)
       THEN /\ ret' = Err
            /\ rpc' = "returned"
            /\ UNCHANGED << selected_columns, gi, gj >>
       ELSE IF runner = "window"
       THEN /\ selected_columns' = ParCollect(pstat)
            /\ gi' = 1 /\ gj' = 0
            /\ rpc' = "groups"
            /\ ret' = ret
       ELSE /\ ret' = Ok(DropTags(ParCollect(pstat)))
            /\ rpc' = "returned"
            /\ UNCHANGED << selected_columns, gi, gj >>
    /\ UNCHANGED << pc, df, argVars, runner, cache, width, result, windows,
                    other, pstat, gstate, nsplit, wrun, evlog, celVars, metaVars >>

\* mutant: the flag is set when due and never removed (no `else`)
CacheFlagSticky(e) == gstate.cwf \/ Cardinality(DOMAIN WindowNodes(e)) = 1

\* lines 84-97: the cache flag an expression is evaluated with
CacheFlagFor(e) == Cardinality(DOMAIN WindowNodes(e)) = 1

\* lines 70-81: the next group gets its own state from split()
GroupBegin ==
    /\ rpc = "groups" /\ gi <= Len(windows) /\ gj = 0
    /\ nsplit' = nsplit + 1
    /\ gstate' = [SplitState(nsplit + 1) EXCEPT
                     !.hwf = TRUE,
                     !.cwf = (Len(windows[gi].items) # 1)]
    /\ gj' = 1
    /\ UNCHANGED << pc, df, argVars, runner, cache, width, result, rpc,
                    windows, other, pstat, selected_columns, gi, wrun, ret,
                    evlog, celVars, metaVars >>

\* lines 83-99: the flag is set for the expression and e.evaluate begins
WinEvalStart ==
    /\ rpc = "groups" /\ gi <= Len(windows) /\ gj >= 1 /\ ~wrun
    /\ LET item == windows[gi].items[gj]
           e == RunExprs[item.pos]
       IN /\ gstate' = [gstate EXCEPT !.cwf = CacheFlagFor(e)]
          /\ evlog' = Append(evlog,
                [st |-> pc, pos |-> item.pos, kind |-> "win",
                 sid |-> gstate.id, hwf |-> gstate.hwf,
                 cwf |-> CacheFlagFor(e), grp |-> gi,
                 gsize |-> Len(windows[gi].items), w |-> Len(df),
                 fail |-> e.fail])
    /\ wrun' = TRUE
    /\ UNCHANGED << pc, df, argVars, runner, cache, width, result, rpc,
                    windows, other, pstat, selected_columns, gi, gj, nsplit,
                    ret, celVars, metaVars >>

\* mutant: the error of a windowed expression is not propagated
WinFailedNever(r) == FALSE

\* line 99: `e.evaluate(df, &state)?`
WinFailed(r) == ~r.ok

\* lines 99-101: the evaluation ends; on an error the call returns it
WinEvalEnd ==
    /\ rpc = "groups" /\ wrun
    /\ wrun' = FALSE
    /\ LET item == windows[gi].items[gj]
           e == RunExprs[item.pos]
           r == Evaluate(e, pc, item.pos, df)
       IN /\ gstate' = [gstate EXCEPT !.cache = CacheAfterEval(gstate, e)]
          /\ IF WinFailed(r)
             THEN /\ ret' = Err
                  /\ rpc' = "returned"
                  /\ UNCHANGED << selected_columns, gi, gj >>
             ELSE /\ selected_columns' =
                        Append(selected_columns, [idx |-> item.idx, s |-> r.s])
                  /\ IF gj < Len(windows[gi].items)
                     THEN gj' = gj + 1 /\ gi' = gi
                     ELSE gj' = 0 /\ gi' = gi + 1
                  /\ UNCHANGED << ret, rpc >>
    /\ UNCHANGED << pc, df, argVars, runner, cache, width, result, windows,
                    other, pstat, nsplit, evlog, celVars, metaVars >>

\* lines 104-106: sort by tag, drop the tags, return the columns
WinFinish ==
    /\ rpc = "groups" /\ gi > Len(windows)
    /\ ret' = Ok(DropTags(SortByKey(selected_columns)))
    /\ rpc' = "returned"
    /\ UNCHANGED << pc, df, argVars, runner, cache, width, result, windows,
                    other, pstat, selected_columns, gi, gj, gstate, nsplit,
                    wrun, evlog, celVars, metaVars >>

\* mutant: the new columns are put in front of the table
HStackFront(tbl, cols) == cols \o tbl

\* df.hstack_mut_unchecked(&tmp_cols): the columns are put at the end
HStack(tbl, cols) == tbl \o cols

\* mutant: the appended columns stay in the table
TruncateNot(tbl, w) == tbl

\* df.get_columns_mut().truncate(width)
Truncate(tbl, w) == SubSeq(tbl, 1, w)

\* rename_cse_tmp_series: a name that starts with the CSE prefix is replaced
\* by the final name it stands for
RenameCseTmpSeries(s) ==
    IF Len(s.name) > 1 /\ s.name[1] = CSE_REPLACED
    THEN [s EXCEPT !.name = Tail(s.name)]
    ELSE s

\* mutant: the last result is not renamed
RenameAllButLast(cols) ==
    [k \in 1..Len(cols) |->
        IF k < Len(cols) THEN RenameCseTmpSeries(cols[k]) ELSE cols[k]]

\* lines 155-157: `for s in result.iter_mut() { rename_cse_tmp_series(s) }`
RenameResults(cols) == [k \in 1..Len(cols) |-> RenameCseTmpSeries(cols[k])]

\* mutant: the cache is left as it is
ClearNever(c) == c

\* lines 137-139 and 164-166: `if has_windows { state.clear_window_expr_cache() }`
ClearIfWindows(c) == IF has_windows THEN ClearWindowExprCache(c) ELSE c

\* lines 136-147: the CSE pre-pass returns; its columns widen the table and
\* the evaluator is called on `exprs`
CseReturn ==
    /\ pc = "cse" /\ rpc = "returned"
    /\ IF ~ret.ok
       THEN /\ result' = Err
            /\ pc' = "done"
            /\ rpc' = "idle"
            /\ UNCHANGED << df, cache, width >>
       ELSE /\ cache' = ClearIfWindows(cache)
            /\ width' = Len(df)
            /\ df' = HStack(df, ret.cols)
            /\ pc' = "main"
            /\ rpc' = "start"
            /\ result' = result
    /\ UNCHANGED << argVars, runner, runVars, celVars, metaVars >>

\* lines 147-168: the evaluator returns from `exprs`
MainReturn ==
    /\ pc = "main" /\ rpc = "returned"
    /\ pc' = "done"
    /\ rpc' = "idle"
    /\ IF ~ret.ok
       THEN /\ result' = Err
            /\ UNCHANGED << df, cache >>
       ELSE /\ IF cse_exprs # <<>>
               THEN /\ df' = Truncate(df, width)
                    /\ result' = Ok(RenameResults(ret.cols))
               ELSE /\ df' = df
                    /\ result' = Ok(ret.cols)
            /\ cache' = ClearIfWindows(cache)
    /\ UNCHANGED << argVars, runner, width, runVars, celVars, metaVars >>

Next ==
    \/ Enter
    \/ ParInstall
    \/ WinPartition
    \/ \E k \in 1..Len(pstat) : ParStart(k)
    \/ \E k \in 1..Len(pstat) : ParEnd(k)
    \/ ParJoin
    \/ GroupBegin
    \/ WinEvalStart
    \/ WinEvalEnd
    \/ WinFinish
    \/ CseReturn
    \/ MainReturn

Spec == Init /\ [][Next]_vars

NextWin ==
    \/ WinPartition
    \/ \E k \in 1..Len(pstat) : ParStart(k)
    \/ \E k \in 1..Len(pstat) : ParEnd(k)
    \/ ParJoin
    \/ GroupBegin
    \/ WinEvalStart
    \/ WinEvalEnd
    \/ WinFinish

SpecWin == InitWin /\ [][NextWin]_vars

\* ------------------------------------------------ check_expand_literals
Max(a, b) == IF a >= b THEN a ELSE b

SeriesLen(s) == Len(s.vals)

\* mutant: the names are not compared
RECURSIVE ScanSkippingNames(_, _, _, _, _, _)
ScanSkippingNames(cols, k, first_len, df_height, all_equal_len, names) ==
    IF k > Len(cols)
    THEN [dup |-> FALSE, df_height |-> df_height,
          all_equal_len |-> all_equal_len]
    ELSE ScanSkippingNames(cols, k + 1, first_len,
            Max(df_height, SeriesLen(cols[k])),
            all_equal_len /\ (SeriesLen(cols[k]) = first_len), names)

\* lines 176-189: the scan of the columns; it stops at the first name that
\* `names.insert` finds already present
RECURSIVE ScanFrom(_, _, _, _, _, _)
ScanFrom(cols, k, first_len, df_height, all_equal_len, names) ==
    IF k > Len(cols)
    THEN [dup |-> FALSE, df_height |-> df_height,
          all_equal_len |-> all_equal_len]
    ELSE LET len == SeriesLen(cols[k])
             h == Max(df_height, len)
             eq == all_equal_len /\ (len = first_len)
         IN IF cols[k].name \in names
            THEN [dup |-> TRUE, name |-> cols[k].name, df_height |-> h,
                  all_equal_len |-> eq]
            ELSE ScanFrom(cols, k + 1, first_len, h, eq,
                          names \cup { cols[k].name })

\* series.new_from_index(0, df_height)
NewFromIndex(s, index, length) ==
    [s EXCEPT !.vals = [k \in 1..length |-> s.vals[index + 1]]]

\* mutant: a column of length 0 is not let through
ExpandNoEmpty(s, df_height) ==
    IF SeriesLen(s) = 1 /\ df_height > 1
    THEN [ok |-> TRUE, s |-> NewFromIndex(s, 0, df_height)]
    ELSE IF SeriesLen(s) = df_height
    THEN [ok |-> TRUE, s |-> s]
    ELSE [ok |-> FALSE, len |-> SeriesLen(s), df_height |-> df_height]

\* lines 195-204: what the map makes of one column
Expand(s, df_height) ==
    IF SeriesLen(s) = 1 /\ df_height > 1
    THEN [ok |-> TRUE, s |-> NewFromIndex(s, 0, df_height)]
    ELSE IF SeriesLen(s) = df_height \/ SeriesLen(s) = 0
    THEN [ok |-> TRUE, s |-> s]
    ELSE [ok |-> FALSE, len |-> SeriesLen(s), df_height |-> df_height]

\* mutant: every column is cut to no rows
HeadNoRows(cols, n) ==
    [k \in 1..Len(cols) |-> [cols[k] EXCEPT !.vals = << >>]]

\* mutant: no column is cut
HeadAll(cols, n) == cols

\* Series::head(Some(n)) on every column
Head_(cols, n) ==
    [k \in 1..Len(cols) |->
        [cols[k] EXCEPT !.vals =
            SubSeq(cols[k].vals, 1, IF n < SeriesLen(cols[k]) THEN n
                                    ELSE SeriesLen(cols[k]))]]

\* lines 171-224
CheckExpandLiterals(cols, zl) ==
    IF cols = <<>> THEN [kind |-> "panic"]     \* selected_columns[0]
    ELSE
      LET scan == ScanFrom(cols, 1, SeriesLen(cols[1]), 0, TRUE, {})
      IN IF scan.dup THEN [kind |-> "duplicate", name |-> scan.name]
         ELSE
           LET ex == [k \in 1..Len(cols) |-> Expand(cols[k], scan.df_height)]
               bad == { k \in 1..Len(cols) : ~ex[k].ok }
           IN IF ~scan.all_equal_len /\ bad # {}
              THEN [kind |-> "length", len |-> ex[Min(bad)].len,
                    df_height |-> scan.df_height]
              ELSE
                LET out == IF scan.all_equal_len THEN cols
                           ELSE [k \in 1..Len(cols) |-> ex[k].s]
                    min == Min({ SeriesLen(out[k]) : k \in 1..Len(out) })
                IN [kind |-> "ok",
                    built |-> out,     \* DataFrame::new_no_checks, line 209
                    cols |-> IF zl THEN Head_(out, min) ELSE out]

InitCel ==
    /\ ExecIdle
    /\ cel_in \in SeqsUpTo(ColPool, MaxCols)
    /\ zero_length \in BOOLEAN
    /\ cel_out = [kind |-> "idle"]
    /\ MetaIdle

CallCheckExpandLiterals ==
    /\ cel_out.kind = "idle"
    /\ cel_out' = CheckExpandLiterals(cel_in, zero_length)
    /\ UNCHANGED << execVars, cel_in, zero_length, metaVars >>

NextCel == CallCheckExpandLiterals

SpecCel == InitCel /\ [][NextCel]_vars

\* ------------------------------------------------------------- claims
IsWindowed(es, i) == WindowNodes(es[i]) # <<>>

WinEntries == { k \in 1..Len(evlog) : evlog[k].kind = "win" }

\* C1: a successful call of the window-aware evaluator on n expressions
\* returns n columns, the column at position i being the result of the i-th
\* expression, whatever the order in which the workers ran.
C1_ColumnsInInputOrder ==
    (runner = "window" /\ rpc = "returned" /\ ret.ok) =>
        /\ Len(ret.cols) = Len(exprs)
        /\ \A i \in 1..Len(exprs) :
              ret.cols[i] = Evaluate(exprs[i], pc, i, df).s

\* C1 witness: a successful call where a windowed expression precedes a
\* plain one, so the results were pushed out of input order.
C1_Witness ==
    /\ runner = "window" /\ rpc = "returned" /\ ret.ok
    /\ Len(exprs) = 3
    /\ IsWindowed(exprs, 1) /\ ~IsWindowed(exprs, 2) /\ IsWindowed(exprs, 3)
    /\ selected_columns[1].idx = 2

\* C2: with non-empty cse_exprs the table has, when the call returns, the
\* column count it had at entry, on every exit path.
C2_WidthRestoredOnEveryExit ==
    (pc = "done" /\ cse_exprs # <<>>) => Len(df) = Len(Df0)

C4_FailFast ==
    /\ (pc = "done" /\ \E k \in 1..Len(evlog) : evlog[k].fail) =>
          (~result.ok /\ result.cols = <<>>)
    /\ (rpc = "returned"
          /\ \E k \in 1..Len(evlog) : evlog[k].fail /\ evlog[k].st = pc) =>
          (~ret.ok /\ ret.cols = <<>>)
    /\ \A k \in WinEntries : evlog[k].fail => k = Len(evlog)
    /\ \A j \in 1..Len(evlog) : \A k \in WinEntries :
          (evlog[j].kind = "plain" /\ evlog[j].fail) =>
              evlog[k].st # evlog[j].st

\* C4 witness: an error was returned after a windowed expression failed while
\* a later group was still to run.
C4_Witness ==
    /\ pc = "done" /\ ~result.ok
    /\ \E k \in WinEntries : evlog[k].fail /\ evlog[k].grp < Len(windows)

\* C5: a windowed group of exactly one expression never evaluates it with
\* the cache flag set on its derived state.
C5_SingleGroupNeverCached ==
    \A k \in WinEntries : evlog[k].gsize = 1 => ~evlog[k].cwf

\* the group a windowed expression was put in
GroupOf(i) ==
    CHOOSE g \in 1..Len(windows) :
        \E m \in 1..Len(windows[g].items) : windows[g].items[m].pos = i

Grouped(i) ==
    Cardinality({ g \in 1..Len(windows) :
        \E m \in 1..Len(windows[g].items) : windows[g].items[m].pos = i }) = 1

\* C6: two expressions that hold a window node are in the same group if and
\* only if the partition-by lists of their first window nodes are the same
\* list, key order included; later window nodes do not count.
C6_GroupedByFirstPartitionBy ==
    (runner = "window" /\ rpc \in {"par", "groups", "returned"}) =>
        \A i, j \in { n \in 1..Len(exprs) : IsWindowed(exprs, n) } :
            /\ Grouped(i)
            /\ (GroupOf(i) = GroupOf(j)) <=>
                   (WindowNodes(exprs[i])[1] = WindowNodes(exprs[j])[1])

\* C6 witness: two expressions share a group though their later window nodes
\* differ, and a third with the same keys in the other order is apart.
C6_Witness ==
    /\ runner = "window" /\ rpc = "par" /\ Len(exprs) = 3
    /\ WindowNodes(exprs[1]) = << <<"a", "b">>, <<"b", "a">> >>
    /\ WindowNodes(exprs[2]) = << <<"b", "a">> >>
    /\ WindowNodes(exprs[3]) = << <<"a", "b">> >>
    /\ GroupOf(1) = GroupOf(3) /\ GroupOf(1) # GroupOf(2)

\* the first expression with the same first partition-by list
FirstOf(i) ==
    Min({ j \in 1..Len(exprs) :
            IsWindowed(exprs, j)
            /\ WindowNodes(exprs[j])[1] = WindowNodes(exprs[i])[1] })

\* C7: windowed evaluations do not overlap: the plain group has completed
\* before the first one starts, groups run in order of first appearance,
\* a group's expressions in list order, each group on its own split state.
C7_WindowedRunAlone ==
    /\ (WinEntries # {} \/ wrun) =>
          \A k \in 1..Len(pstat) : pstat[k] = "ok"
    /\ wrun => (Len(evlog) \in WinEntries /\ rpc = "groups")
    /\ \A a, b \in WinEntries :
          LET i == evlog[a].pos
              j == evlog[b].pos
          IN /\ a < b =>
                  \/ FirstOf(i) < FirstOf(j)
                  \/ FirstOf(i) = FirstOf(j) /\ i < j
             /\ evlog[a].sid # 0
             /\ (evlog[a].sid = evlog[b].sid) <=> (FirstOf(i) = FirstOf(j))

\* C7 witness: the second group is being evaluated, after a plain group of
\* one expression.
C7_Witness ==
    /\ runner = "window" /\ wrun /\ gi = 2 /\ Len(other) = 1
    /\ Len(windows[1].items) = 1 /\ Len(exprs) = 3

\* the sequential reference evaluator: one expression after the other in
\* list order, stopping at the first error
RECURSIVE SeqEvalFrom(_, _, _, _, _)
SeqEvalFrom(es, k, st, tbl, acc) ==
    IF k > Len(es) THEN Ok(acc)
    ELSE LET r == Evaluate(es[k], st, k, tbl)
         IN IF r.ok THEN SeqEvalFrom(es, k + 1, st, tbl, Append(acc, r.s))
            ELSE Err

\* C8: run_exprs_par returns, under every interleaving of the workers, what
\* the sequential evaluator returns: the same columns in list order, and an
\* error whenever some expression fails.
C8_ParallelEqualsSequential ==
    (runner = "par" /\ rpc = "returned") =>
        /\ ret.ok = SeqEvalFrom(RunExprs, 1, pc, df, <<>>).ok
        /\ ret.cols = SeqEvalFrom(RunExprs, 1, pc, df, <<>>).cols

\* C8 witness: run_exprs_par returned two columns whose evaluations were
\* started last expression first.
C8_Witness ==
    /\ runner = "par" /\ rpc = "returned" /\ ret.ok /\ Len(ret.cols) = 2
    /\ \E a, b \in 1..Len(evlog) :
          a < b /\ evlog[a].st = pc /\ evlog[b].st = pc
                /\ evlog[a].pos > evlog[b].pos

IsCseTmpName(n) == Len(n) > 1 /\ n[1] = CSE_REPLACED

\* C9: a successful call with non-empty cse_exprs returns one column per
\* expression of `exprs`, as a call without cse_exprs does, and none of the
\* returned columns carries a CSE temporary name.
C9_CseLeavesNoTrace ==
    (pc = "done" /\ result.ok) =>
        /\ Len(result.cols) = Len(exprs)
        /\ cse_exprs # <<>> =>
              \A k \in 1..Len(result.cols) : ~IsCseTmpName(result.cols[k].name)

\* C9 witness: a successful call with cse_exprs whose evaluator returned a
\* column under a temporary name, renamed in the result.
C9_Witness ==
    /\ pc = "done" /\ result.ok /\ cse_exprs # <<>> /\ Len(exprs) = 2
    /\ IsCseTmpName(ret.cols[2].name)
    /\ result.cols[2].name = FinalName

\* the positions of `cols` whose name occurs at an earlier position
Repeats(cols) ==
    { j \in 1..Len(cols) : \E i \in 1..(j - 1) : cols[i].name = cols[j].name }

\* C10: check_expand_literals returns a table only if the names given are
\* pairwise distinct; if a name occurs twice it returns the duplicate-name
\* error for the first name found repeated in input order (the name at the
\* first position that repeats an earlier one), whatever the lengths are.
C10_DuplicateNameFirst ==
    (cel_out.kind # "idle") =>
        /\ cel_out.kind = "ok" => Repeats(cel_in) = {}
        /\ Repeats(cel_in) # {} =>
              /\ cel_out.kind = "duplicate"
              /\ cel_out.name = cel_in[Min(Repeats(cel_in))].name

\* C10 witness: a duplicate-name error for columns whose lengths, 2 and 3,
\* cannot be reconciled, with two names repeated.
C10_Witness ==
    /\ cel_out.kind = "duplicate" /\ cel_out.name = "b"
    /\ Len(cel_in) = 4
    /\ cel_in[1].name = "a" /\ cel_in[2].name = "b"
    /\ cel_in[3].name = "b" /\ cel_in[4].name = "a"
    /\ SeriesLen(cel_in[1]) = 2 /\ SeriesLen(cel_in[2]) = 3

\* the lengths of the columns given, and the largest of them
InLens == { SeriesLen(cel_in[k]) : k \in 1..Len(cel_in) }

InHeight == CHOOSE h \in InLens : \A l \in InLens : l <= h

\* C11: for uniquely named columns whose lengths are not all equal, with
\* df_height the largest length, the table is built from: each column of
\* length 1 repeated to df_height when df_height > 1, each column of length
\* df_height or 0 as given; a column of any other length gives the
\* length-mismatch error, so two different lengths above 1 always do.
C11_BroadcastRule ==
    (cel_out.kind # "idle" /\ cel_in # <<>> /\ Repeats(cel_in) = {}
        /\ Cardinality(InLens) > 1) =>
        IF \E l \in InLens : l \notin {0, 1, InHeight}
        THEN cel_out.kind = "length"
        ELSE /\ cel_out.kind = "ok"
             /\ Len(cel_out.built) = Len(cel_in)
             /\ \A k \in 1..Len(cel_in) :
                   IF SeriesLen(cel_in[k]) = 1 /\ InHeight > 1
                   THEN /\ cel_out.built[k].name = cel_in[k].name
                        /\ cel_out.built[k].vals =
                              [m \in 1..InHeight |-> cel_in[k].vals[1]]
                   ELSE cel_out.built[k] = cel_in[k]
             /\ ~zero_length => cel_out.cols = cel_out.built

\* C11 witness: a table built from columns of lengths 0, 1 and 3.
C11_Witness ==
    /\ cel_out.kind = "ok" /\ Len(cel_in) = 3
    /\ SeriesLen(cel_in[1]) = 0 /\ SeriesLen(cel_in[2]) = 1
    /\ SeriesLen(cel_in[3]) = 3
    /\ SeriesLen(cel_out.built[2]) = 3

OutLens == { SeriesLen(cel_out.cols[k]) : k \in 1..Len(cel_out.cols) }

C18_TruncateToMin ==
    (cel_out.kind = "ok") =>
        IF zero_length
        THEN OutLens = { IF 0 \in InLens THEN 0 ELSE InHeight }
        ELSE cel_out.cols = cel_out.built

\* C18 witness: zero_length = true, columns of lengths 0, 1 and 3 given, the
\* broadcast column of length 3 cut to no rows.
C18_Witness ==
    /\ cel_out.kind = "ok" /\ zero_length /\ Len(cel_in) = 3
    /\ SeriesLen(cel_in[1]) = 1 /\ SeriesLen(cel_in[2]) = 3
    /\ SeriesLen(cel_in[3]) = 0
    /\ SeriesLen(cel_out.built[1]) = 3 /\ OutLens = {0}

\* C19: every table returned, with zero_length true or false, has all its
\* columns of one length.
C19_OneCommonLength ==
    (cel_out.kind = "ok") => Cardinality(OutLens) = 1

C17_TwoStages ==
    cse_exprs # <<>> =>
        /\ \A k \in 1..Len(evlog) :
              /\ evlog[k].st = "cse" => evlog[k].w = Len(Df0)
              /\ evlog[k].st = "main" =>
                    /\ evlog[k].w = Len(Df0) + Len(cse_exprs)
                    /\ \A b \in 1..Len(evlog) : evlog[b].st = "cse" => b < k
        /\ pc = "main" =>
              /\ \A i \in 1..Len(cse_exprs) :
                    \E k \in 1..Len(evlog) :
                        evlog[k].st = "cse" /\ evlog[k].pos = i
              /\ df = Df0 \o [i \in 1..Len(cse_exprs) |->
                                 Evaluate(cse_exprs[i], "cse", i, Df0).s]
              /\ has_windows => cache = {}

\* C17 witness: an expression of `exprs` is being evaluated by a worker
\* after two CSE expressions, the first of them windowed, widened the table.
C17_Witness ==
    /\ pc = "main" /\ has_windows /\ Len(cse_exprs) = 2
    /\ WindowNodes(cse_exprs[1]) # <<>> /\ WindowNodes(cse_exprs[2]) = <<>>
    /\ \E k \in 1..Len(pstat) : pstat[k] = "run"

\* where expression i was put: the plain items and the items of each group
BucketsOf(i) ==
    Cardinality({ k \in 1..Len(other) : other[k].pos = i })
    + Cardinality({ gm \in UNION { { << g, m >> :
                                       m \in 1..Len(windows[g].items) } :
                                   g \in 1..Len(windows) } :
          windows[gm[1]].items[gm[2]].pos = i })

AllItems ==
    { other[k] : k \in 1..Len(other) }
    \cup UNION { { windows[g].items[m] : m \in 1..Len(windows[g].items) } :
                 g \in 1..Len(windows) }

\* C20: every expression is put in exactly one bucket, the plain group or
\* one windowed group, with a tag no other expression has, and is evaluated
\* exactly once in a call that succeeds.
C20_OneBucketOneEvaluation ==
    (runner = "window" /\ rpc \in {"par", "groups", "returned"}) =>
        /\ \A i \in 1..Len(exprs) : BucketsOf(i) = 1
        /\ \A x, y \in AllItems : x.idx = y.idx => x.pos = y.pos
        /\ (rpc = "returned" /\ ret.ok) =>
              \A i \in 1..Len(exprs) :
                  Cardinality({ k \in 1..Len(evlog) : evlog[k].pos = i }) = 1

\* C20 witness: a call succeeded on a plain expression and two windowed ones,
\* the first holding two window nodes with different partition-by lists.
C20_Witness ==
    /\ runner = "window" /\ rpc = "returned" /\ ret.ok /\ Len(exprs) = 3
    /\ WindowNodes(exprs[1]) = << <<"a", "b">>, <<"b", "a">> >>
    /\ WindowNodes(exprs[2]) = << >>
    /\ WindowNodes(exprs[3]) = << <<"b", "a">> >>

\* ---------------------------------------------------------- profile_name
\* s.to_field(input_schema): a field with its name, or an error
ToFieldResults ==
    { [ok |-> FALSE, name |-> ""] } \cup
    { [ok |-> TRUE, name |-> n] : n \in CelNames }

\* s.as_expression(): None, or the expression, seen through the column
\* names expr_to_leaf_column_names_iter yields for it
AsExpressionResults ==
    { [some |-> FALSE, leaves |-> << >>] } \cup
    { [some |-> TRUE, leaves |-> l] : l \in SeqsUpTo(CelNames, MaxLeaves) }

\* lines 5-18
ProfileName(has_cse, to_field, expr) ==
    IF to_field.ok THEN [kind |-> "ok", name |-> to_field.name]   \* line 16
    ELSE IF ~has_cse THEN [kind |-> "err"]                        \* line 11
    ELSE IF ~expr.some THEN [kind |-> "panic"]    \* as_expression().unwrap()
    ELSE IF expr.leaves = << >> THEN [kind |-> "panic"]  \* .next().unwrap()
    ELSE [kind |-> "ok", name |-> expr.leaves[1]]

InitPn ==
    /\ ExecIdle /\ CelIdle /\ UndoIdle /\ SelIdle
    /\ pn_in \in [has_cse : BOOLEAN, to_field : ToFieldResults,
                  expr : AsExpressionResults]
    /\ pn_out = [kind |-> "idle"]

CallProfileName ==
    /\ pn_out.kind = "idle"
    /\ pn_out' = ProfileName(pn_in.has_cse, pn_in.to_field, pn_in.expr)
    /\ UNCHANGED << execVars, celVars, pn_in, ua_in, ua_out, reg, sel_last >>

NextPn == CallProfileName

SpecPn == InitPn /\ [][NextPn]_vars

\* C15: profile_name returns the inferred field name when inference works;
\* when it fails it returns the error without has_cse, and with has_cse it
\* never fails and returns the first leaf column name of the expression,
\* for every expression, one that refers to no column included.
C15_CseNeverFails ==
    (pn_out.kind # "idle" /\ pn_in.expr.some) =>
        IF pn_in.to_field.ok
        THEN pn_out = [kind |-> "ok", name |-> pn_in.to_field.name]
        ELSE IF ~pn_in.has_cse THEN pn_out.kind = "err"
        ELSE /\ pn_out.kind = "ok"
             /\ pn_in.expr.leaves # << >> =>
                   pn_out.name = pn_in.expr.leaves[1]

\* ------------------------------------------------- meta.rs: selectors
\* Expr::Column(name)
Col(n) == [kind |-> "col", name |-> n, add |-> << >>, subtract |-> << >>]

\* Expr::Selector(Selector { add, subtract })
Sel(a, b) == [kind |-> "selector", name |-> "", add |-> a, subtract |-> b]

IsSelector(e) == e.kind = "selector"

\* Selector::new(e)
SelectorNew(e) == Sel(<< e >>, << >>)

\* &s + &s_other: the operand lists of both, merged
SelectorPlus(x, y) == Sel(x.add \o y.add, x.subtract \o y.subtract)

\* &s - &s_other: the operands of the other join the subtract list
SelectorMinus(x, y) == Sel(x.add, x.subtract \o y.add \o y.subtract)

\* lines 98-101
IntoSelector(e) ==
    IF IsSelector(e) THEN [ok |-> FALSE, e |-> e]
    ELSE [ok |-> TRUE, e |-> SelectorNew(e)]

\* mutant: the other expression is pushed whatever it is
SelectorAddPush(e, o) ==
    IF IsSelector(e)
    THEN [ok |-> TRUE, e |-> Sel(Append(e.add, o), e.subtract)]
    ELSE [ok |-> FALSE, e |-> e]

\* lines 72-83
SelectorAdd(e, o) ==
    IF IsSelector(e)
    THEN [ok |-> TRUE,
          e |-> IF IsSelector(o) THEN SelectorPlus(e, o)
                ELSE Sel(Append(e.add, o), e.subtract)]
    ELSE [ok |-> FALSE, e |-> e]

\* lines 85-96
SelectorSub(e, o) ==
    IF IsSelector(e)
    THEN [ok |-> TRUE,
          e |-> IF IsSelector(o) THEN SelectorMinus(e, o)
                ELSE Sel(e.add, Append(e.subtract, o))]
    ELSE [ok |-> FALSE, e |-> e]

Operands(e) == Len(e.add) + Len(e.subtract)

\* two expressions, none a selector
InitSel ==
    /\ ExecIdle /\ CelIdle /\ PnIdle /\ UndoIdle
    /\ reg \in [1..2 -> { Col(n) : n \in {"a", "b"} }]
    /\ sel_last = [op |-> "idle"]

\* what an operation on expression i leaves: its result if it succeeded
Done(op, i, o, r) ==
    /\ Operands(r.e) <= MaxOperands
    /\ reg' = IF r.ok THEN [reg EXCEPT ![i] = r.e] ELSE reg
    /\ sel_last' = [op |-> op, ok |-> r.ok, self |-> reg[i], other |-> o,
                    e |-> r.e]
    /\ UNCHANGED << execVars, celVars, pn_in, pn_out, ua_in, ua_out >>

CallIntoSelector(i) == Done("into", i, reg[i], IntoSelector(reg[i]))

CallSelectorAdd(i, j) == Done("add", i, reg[j], SelectorAdd(reg[i], reg[j]))

CallSelectorSub(i, j) == Done("sub", i, reg[j], SelectorSub(reg[i], reg[j]))

NextSel ==
    \/ \E i \in 1..2 : CallIntoSelector(i)
    \/ \E i, j \in 1..2 : CallSelectorAdd(i, j)
    \/ \E i, j \in 1..2 : CallSelectorSub(i, j)

SpecSel == InitSel /\ [][NextSel]_vars

NoSelectorOperand(e) ==
    /\ \A k \in 1..Len(e.add) : ~IsSelector(e.add[k])
    /\ \A k \in 1..Len(e.subtract) : ~IsSelector(e.subtract[k])

\* C13: after any sequence of the three selector operations from
\* expressions that are no selectors, no selector has a selector as a direct
\* operand; _into_selector fails on a selector, _selector_add and
\* _selector_sub merge the operands of a selector argument and fail when the
\* receiver is no selector.
C13_NoNestedSelector ==
    /\ \A i \in DOMAIN reg : NoSelectorOperand(reg[i])
    /\ (sel_last.op = "into") => (sel_last.ok <=> ~IsSelector(sel_last.self))
    /\ (sel_last.op \in {"add", "sub"}) =>
          /\ sel_last.ok <=> IsSelector(sel_last.self)
          /\ (sel_last.ok /\ IsSelector(sel_last.other)) =>
                /\ NoSelectorOperand(sel_last.e)
                /\ \A k \in 1..Len(sel_last.other.add) :
                      \/ \E n \in 1..Len(sel_last.e.add) :
                            sel_last.e.add[n] = sel_last.other.add[k]
                      \/ \E n \in 1..Len(sel_last.e.subtract) :
                            sel_last.e.subtract[n] = sel_last.other.add[k]

\* C13 witness: a selector was added to a selector and their operands merged.
C13_Witness ==
    /\ sel_last.op = "add" /\ sel_last.ok
    /\ IsSelector(sel_last.other) /\ Operands(sel_last.e) = 3

\* --------------------------------------------- meta.rs: undo_aliases
\* Expr::Alias, Expr::KeepName, Expr::RenameAlias
Wrappers == {"alias", "keep_name", "rename_alias"}

\* Expr::Column
Leaf(n) == [kind |-> "col", name |-> n, kids |-> << >>]

Wrap(k, t) == [kind |-> k, name |-> "", kids |-> << t >>]

\* any other expression with inputs, here Expr::BinaryExpr
Bin(l, r) == [kind |-> "binary", name |-> "", kids |-> << l, r >>]

RECURSIVE Trees(_)
Trees(d) ==
    IF d = 0 THEN { Leaf(n) : n \in {"a", "b"} }
    ELSE LET T == Trees(d - 1) IN
         T \cup { Wrap(k, t) : k \in Wrappers, t \in T }
           \cup { Bin(l, r) : l \in T, r \in T }

\* lines 40-52: the closure handed to apply; it always asks to continue
UndoAliasesClosure(e) == IF e.kind \in Wrappers THEN e.kids[1] ELSE e

\* ExprMut::apply: the closure is run on a node, then the inputs of the node
\* as the closure left it are visited
RECURSIVE ExprMutApply(_)
ExprMutApply(e) ==
    LET m == UndoAliasesClosure(e) IN
    [m EXCEPT !.kids = [k \in 1..Len(m.kids) |-> ExprMutApply(m.kids[k])]]

\* lines 39-55
UndoAliases(e) == ExprMutApply(e)

InitUndo ==
    /\ ExecIdle /\ CelIdle /\ PnIdle /\ SelIdle
    /\ ua_in \in { << t >> : t \in Trees(MaxDepth) }
    /\ ua_out = << >>

CallUndoAliases ==
    /\ ua_out = << >>
    /\ ua_out' = << UndoAliases(ua_in[1]) >>
    /\ UNCHANGED << execVars, celVars, pn_in, pn_out, ua_in, reg, sel_last >>

NextUndo == CallUndoAliases

SpecUndo == InitUndo /\ [][NextUndo]_vars

RECURSIVE HasWrapper(_)
HasWrapper(e) ==
    \/ e.kind \in Wrappers
    \/ \E k \in 1..Len(e.kids) : HasWrapper(e.kids[k])

====
